---- MODULE Spec2Model ----
(***************************************************************************)
(* Model of the Todo Console App core: the JSON storage handler            *)
(* (src/src/storage.py), the task manager (src/src/todo_manager.py) and    *)
(* the add-task dialogue of the command line (src/src/main.py).            *)
(*                                                                         *)
(* Strings are modelled by their shape: the number of leading whitespace   *)
(* characters, the length of the part from the first to the last           *)
(* non-whitespace character, and the number of trailing whitespace         *)
(* characters.  A string with no non-whitespace character has core = 0 and *)
(* carries all its whitespace in lead.                                     *)
(***************************************************************************)
EXTENDS Integers, Sequences, FiniteSets, TLC

VARIABLES
    tasks,      \* TodoManager.tasks: the in-memory sequence of Task objects
    next_id,    \* TodoManager.next_id
    file,       \* content of the file at JSONStorage.filepath
    backup,     \* content of the sibling .json.backup file
    last,       \* the last call made and what the caller got back
    adds,       \* history: number of add_task calls that returned a task
    issued,     \* history: the ids add_task has given to tasks so far
    fails,      \* history: number of I/O failures injected so far
    held        \* what the caller of the manager keeps between calls

vars == <<tasks, next_id, file, backup, last, adds, issued, fails, held>>

(* ------------------------------- bounds -------------------------------- *)

\* add_task calls that return a task, in a session whose saves all succeed
MaxAdds == 3
\* the same, in the specifications that also vary the environment
\* (failing saves, restarts, files found at start)
MaxAddsEnv == 2
\* saves that fail
MaxFails == 1

(* --------------------------- program constants -------------------------- *)

TitleMax == 200
DescMax == 1000

(* ------------------------------- strings -------------------------------- *)

Str(lead, core, trail) == [lead |-> lead, core |-> core, trail |-> trail]

StrLen(s) == s.lead + s.core + s.trail

\* str.strip(): surrounding whitespace is removed, the core is kept
strip(s) == Str(0, s.core, 0)

\* the empty string, the default of add_task's description
EmptyStr == Str(0, 0, 0)

\* the None default of update_task's title and description
NoneArg == [none |-> TRUE]

(* ----------------------------- Task entity ------------------------------ *)

Task(id, title, description, completed, created_at) ==
    [id |-> id, title |-> title, description |-> description,
     completed |-> completed, created_at |-> created_at]

\* the constraints add enforces on a new task
ValidTask(title, description) ==
    /\ strip(title).core >= 1
    /\ StrLen(strip(title)) <= TitleMax
    /\ StrLen(description) <= DescMax

isoformat(t) == <<"iso", t>>

fromisoformat(s) == s[2]

to_dict(t) ==
    [id |-> t.id, title |-> t.title, description |-> t.description,
     completed |-> t.completed, created_at |-> isoformat(t.created_at)]

\* a record is reconstructible when the keys without a default are present
from_dict_ok(d) == {"id", "title", "created_at"} \subseteq DOMAIN d

from_dict(d) ==
    Task(d.id, d.title,
         IF "description" \in DOMAIN d THEN d.description ELSE EmptyStr,
         IF "completed" \in DOMAIN d THEN d.completed ELSE FALSE,
         fromisoformat(d.created_at))

(* ------------------------------ the files ------------------------------- *)

NoFile == [kind |-> "absent"]

\* a file whose write did not complete: an empty or cut-off document
Truncated == [kind |-> "truncated"]

JsonFile(data) == [kind |-> "json", data |-> data]

exists(f) == f.kind # "absent"

(* --------------------------- JSONStorage.save --------------------------- *)

\* the points at which save can raise
Faults == {"none", "copy", "copy_partial", "serialize", "open", "write"}

\* a copy is only attempted, and so can only fail, when the file exists
PossibleFaults(f) ==
    IF exists(f) THEN Faults ELSE Faults \ {"copy", "copy_partial"}

\* faulty variant of save_backup: the backup is made only when there is none yet
save_backup_once(f, b, fault) ==
    IF ~exists(f) THEN b
    ELSE IF fault = "copy" THEN b
    ELSE IF fault = "copy_partial" THEN Truncated
    ELSE IF exists(b) THEN b
    ELSE f

\* shutil.copy(self.filepath, backup_path): the backup after the step.
\* A copy that fails leaves the backup as it was (the destination could not
\* be opened) or cut off (the destination was opened and the write failed).
save_backup(f, b, fault) ==
    IF ~exists(f) THEN b
    ELSE IF fault = "copy" THEN b
    ELSE IF fault = "copy_partial" THEN Truncated
    ELSE f

\* faulty variant of save_data: the counter is recomputed from the number of tasks
save_data_len(ts, n) ==
    [tasks |-> [i \in 1..Len(ts) |-> to_dict(ts[i])], next_id |-> Len(ts) + 1]

\* data = {"tasks": [task.to_dict() for task in tasks], "next_id": next_id}
save_data(ts, n) ==
    [tasks |-> [i \in 1..Len(ts) |-> to_dict(ts[i])], next_id |-> n]

\* with open(self.filepath, 'w') as f: json.dump(data, f, ...)
\* open truncates the file; a dump that fails leaves it cut off
save_write(f, data, fault) ==
    IF fault = "open" THEN f
    ELSE IF fault = "write" THEN Truncated
    ELSE JsonFile(data)

\* faulty variant of save_except: the exception is not caught
save_reraise(f, b) == [file |-> f, backup |-> b, ret |-> FALSE, raised |-> TRUE]

\* except Exception as e: print(...); return False
save_except(f, b) == [file |-> f, backup |-> b, ret |-> FALSE, raised |-> FALSE]

save(f, b, ts, n, fault) ==
    LET b1 == save_backup(f, b, fault)
    IN  IF exists(f) /\ fault \in {"copy", "copy_partial"} THEN save_except(f, b1)
        ELSE IF fault = "serialize" THEN save_except(f, b1)
        ELSE IF fault \in {"open", "write"}
             THEN save_except(save_write(f, save_data(ts, n), fault), b1)
        ELSE [file |-> save_write(f, save_data(ts, n), fault), backup |-> b1,
              ret |-> TRUE, raised |-> FALSE]

(* --------------------------- JSONStorage.load --------------------------- *)

EmptyState == [tasks |-> <<>>, next_id |-> 1]

\* faulty variant of load: a record that cannot be reconstructed is skipped and
\* the rest of the document is kept
load_skip_bad(f) ==
    IF ~exists(f) THEN EmptyState
    ELSE IF f.kind # "json" THEN EmptyState
    ELSE LET data == f.data
             recs == IF "tasks" \in DOMAIN data THEN data.tasks ELSE <<>>
             good == SelectSeq(recs, from_dict_ok)
         IN  [tasks |-> [i \in 1..Len(good) |-> from_dict(good[i])],
              next_id |-> IF "next_id" \in DOMAIN data THEN data.next_id ELSE 1]

\* faulty variant of load: the counter is recomputed from the number of tasks
load_recount(f) ==
    IF ~exists(f) THEN EmptyState
    ELSE IF f.kind # "json" THEN EmptyState
    ELSE LET data == f.data
             recs == IF "tasks" \in DOMAIN data THEN data.tasks ELSE <<>>
         IN  IF \E i \in 1..Len(recs) : ~from_dict_ok(recs[i]) THEN EmptyState
             ELSE [tasks |-> [i \in 1..Len(recs) |-> from_dict(recs[i])],
                   next_id |-> Len(recs) + 1]

load(f) ==
    IF ~exists(f) THEN EmptyState
    ELSE IF f.kind # "json" THEN EmptyState
    ELSE LET data == f.data
             recs == IF "tasks" \in DOMAIN data THEN data.tasks ELSE <<>>
         IN  IF \E i \in 1..Len(recs) : ~from_dict_ok(recs[i]) THEN EmptyState
             ELSE [tasks |-> [i \in 1..Len(recs) |-> from_dict(recs[i])],
                   next_id |-> IF "next_id" \in DOMAIN data
                               THEN data.next_id ELSE 1]

(* ------------------------------ TodoManager ----------------------------- *)

\* faulty variant of get_task_by_id: the id is taken for a position in the list
get_task_by_position(ts, task_id) ==
    IF task_id \in 1..Len(ts) THEN task_id ELSE 0

\* the index of the first task with the id, 0 for None
get_task_by_id(ts, task_id) ==
    IF \E i \in 1..Len(ts) : ts[i].id = task_id
    THEN CHOOSE i \in 1..Len(ts) :
            /\ ts[i].id = task_id
            /\ \A j \in 1..(i - 1) : ts[j].id # task_id
    ELSE 0

\* faulty variant of remove_at: the slot is filled with the last task
remove_swap(ts, i) ==
    [j \in 1..(Len(ts) - 1) |-> IF j = i THEN ts[Len(ts)] ELSE ts[j]]

\* list.remove at a known index
remove_at(ts, i) == [j \in 1..(Len(ts) - 1) |-> IF j < i THEN ts[j] ELSE ts[j + 1]]

\* what the caller of a manager method gets: save's own return value is dropped
\* by _save_to_storage's callers, an exception of save would propagate
Ret(s, value) == IF s.raised THEN "raised" ELSE value

\* whether the save a call made wrote the file
SaveOutcome(s) == IF s.ret THEN "ok" ELSE "fail"

\* datetime.now(): a fresh timestamp per created task
now == adds + 1

Call(op, id, title, description, ret, saved) ==
    [op |-> op, id |-> id, title |-> title, description |-> description,
     ret |-> ret, save |-> saved, value |-> NoneArg]

Inject(fault) ==
    /\ fault # "none" => fails < MaxFails
    /\ fails' = IF fault = "none" THEN fails ELSE fails + 1

\* the caller keeps nothing
Nothing == [kind |-> "nothing"]

\* TodoManager.__init__ on a path with no file
Init ==
    /\ file = NoFile
    /\ backup = NoFile
    /\ tasks = load(file).tasks
    /\ next_id = load(file).next_id
    /\ last = Call("init", 0, NoneArg, NoneArg, "none", "none")
    /\ adds = 0
    /\ issued = {}
    /\ fails = 0
    /\ held = Nothing

\* faulty variant of add_mem: the id is derived from the number of tasks
add_mem_len(ts, n, title, description) ==
    IF ~ValidTask(title, description)
    THEN [raised |-> TRUE, tasks |-> ts, next_id |-> n, id |-> 0]
    ELSE [raised |-> FALSE,
          tasks |-> Append(ts, Task(Len(ts) + 1, title, description, FALSE, now)),
          next_id |-> Len(ts) + 2, id |-> Len(ts) + 1]

\* faulty variant of add_mem: the counter is advanced before the task is constructed
add_mem_burn(ts, n, title, description) ==
    IF ~ValidTask(title, description)
    THEN [raised |-> TRUE, tasks |-> ts, next_id |-> n + 1, id |-> 0]
    ELSE [raised |-> FALSE,
          tasks |-> Append(ts, Task(n, title, description, FALSE, now)),
          next_id |-> n + 1, id |-> n]

\* faulty variant of add_mem: the new task is put in front of the others
add_mem_front(ts, n, title, description) ==
    IF ~ValidTask(title, description)
    THEN [raised |-> TRUE, tasks |-> ts, next_id |-> n, id |-> 0]
    ELSE [raised |-> FALSE,
          tasks |-> <<Task(n, title, description, FALSE, now)>> \o ts,
          next_id |-> n + 1, id |-> n]

\* the in-memory part of add_task: Task(...), append, next_id += 1
add_mem(ts, n, title, description) ==
    IF ~ValidTask(title, description)
    THEN [raised |-> TRUE, tasks |-> ts, next_id |-> n, id |-> 0]
    ELSE [raised |-> FALSE,
          tasks |-> Append(ts, Task(n, title, description, FALSE, now)),
          next_id |-> n + 1, id |-> n]

\* add_task called as op ("add" by a caller of the manager, "handle_add" by
\* the command line, which catches the ValueError)
add_call(op, title, description, fault) ==
    \E m \in {add_mem(tasks, next_id, title, description)} :
        IF m.raised
        THEN /\ fault = "none"
             /\ last' = Call(op, 0, title, description, "ValueError", "none")
             /\ tasks' = m.tasks
             /\ next_id' = m.next_id
             /\ UNCHANGED <<file, backup, adds, issued, fails>>
        ELSE \E s \in {save(file, backup, m.tasks, m.next_id, fault)} :
                 /\ Inject(fault)
                 /\ tasks' = m.tasks
                 /\ next_id' = m.next_id
                 /\ file' = s.file
                 /\ backup' = s.backup
                 /\ last' = Call(op, m.id, title, description, Ret(s, "task"),
                                 SaveOutcome(s))
                 /\ adds' = adds + 1
                 /\ issued' = issued \cup {m.id}

add_task(title, description, fault) == add_call("add", title, description, fault)

\* the command line's checks before it calls add_task
title_empty(title) == StrLen(title) = 0

\* faulty variant of title_too_long: the comparison is off by one
title_too_long_ge(title) == StrLen(title) >= TitleMax

title_too_long(title) == StrLen(title) > TitleMax

description_too_long(description) == StrLen(description) > DescMax

\* sanitize_input returns its argument
sanitize_input(text) == text

handle_add_task(raw_title, raw_description, fault) ==
    LET title == strip(raw_title)
        description == strip(raw_description)
    IN  IF \/ title_empty(title)
           \/ title_too_long(title)
           \/ title_empty(strip(title))
           \/ description_too_long(description)
        THEN /\ fault = "none"
             /\ last' = Call("handle_add", 0, title, description, "rejected", "none")
             /\ UNCHANGED <<tasks, next_id, file, backup, adds, issued, fails>>
        ELSE add_call("handle_add", sanitize_input(title),
                      sanitize_input(description), fault)

\* a manager call that finds no task with the id
not_found(op, task_id, ret) ==
    /\ last' = Call(op, task_id, NoneArg, NoneArg, ret, "none")
    /\ UNCHANGED <<tasks, next_id, file, backup, adds, issued, fails>>

\* a manager call that changed the in-memory tasks to ts and saves
mutate_and_save(op, task_id, title, description, ts, fault) ==
    \E s \in {save(file, backup, ts, next_id, fault)} :
        /\ Inject(fault)
        /\ tasks' = ts
        /\ file' = s.file
        /\ backup' = s.backup
        /\ last' = Call(op, task_id, title, description, Ret(s, "true"),
                        SaveOutcome(s))
        /\ UNCHANGED <<next_id, adds, issued>>

call_get_task_by_id(task_id) ==
    /\ last' = Call("get", task_id, NoneArg, NoneArg,
                    IF get_task_by_id(tasks, task_id) = 0 THEN "none" ELSE "task",
                    "none")
    /\ UNCHANGED <<tasks, next_id, file, backup, adds, issued, fails>>

\* the replacement task update_task builds
\* faulty variant of updated_task: an empty argument is taken as not provided
updated_task_falsy(task, title, description) ==
    Task(task.id,
         IF title # NoneArg /\ title # EmptyStr THEN title ELSE task.title,
         IF description # NoneArg /\ description # EmptyStr
         THEN description ELSE task.description,
         task.completed,
         task.created_at)

updated_task(task, title, description) ==
    Task(task.id,
         IF title # NoneArg THEN title ELSE task.title,
         IF description # NoneArg THEN description ELSE task.description,
         task.completed,
         task.created_at)

\* update_task called as op ("update" by a caller of the manager,
\* "handle_update" by the command line)
update_call(op, task_id, title, description, fault) ==
    \E index \in {get_task_by_id(tasks, task_id)} :
        IF index = 0
        THEN fault = "none" /\ not_found(op, task_id, "false")
        ELSE mutate_and_save(op, task_id, title, description,
                 [tasks EXCEPT ![index] = updated_task(tasks[index], title, description)],
                 fault)

update_task(task_id, title, description, fault) ==
    update_call("update", task_id, title, description, fault)

\* the command line's update: the task is looked up first, an input that is
\* empty after strip is replaced by the task's current value, and a field the
\* user did not choose is passed as None
handle_update_task(task_id, update_choice, raw_title, raw_description, fault) ==
    \E index \in {get_task_by_id(tasks, task_id)} :
        IF tasks = <<>> \/ index = 0
        THEN fault = "none" /\ not_found("handle_update", task_id, "none")
        ELSE LET task == tasks[index]
                 new_title ==
                     IF update_choice \in {"t", "b"}
                     THEN (IF StrLen(strip(raw_title)) = 0 THEN task.title
                           ELSE strip(raw_title))
                     ELSE NoneArg
                 new_description ==
                     IF update_choice \in {"d", "b"}
                     THEN (IF StrLen(strip(raw_description)) = 0
                           THEN task.description
                           ELSE strip(raw_description))
                     ELSE NoneArg
             IN  update_call("handle_update", task_id, new_title,
                             new_description, fault)

\* faulty variant of toggled: the task is marked complete instead of flipped
toggled_set(task) == [task EXCEPT !.completed = TRUE]

\* task.completed = not task.completed
toggled(task) == [task EXCEPT !.completed = ~task.completed]

delete_task(task_id, fault) ==
    \E index \in {get_task_by_id(tasks, task_id)} :
        IF index = 0
        THEN fault = "none" /\ not_found("delete", task_id, "false")
        ELSE mutate_and_save("delete", task_id, NoneArg, NoneArg,
                             remove_at(tasks, index), fault)

toggle_complete(task_id, fault) ==
    \E index \in {get_task_by_id(tasks, task_id)} :
        IF index = 0
        THEN fault = "none" /\ not_found("toggle", task_id, "false")
        ELSE mutate_and_save("toggle", task_id, NoneArg, NoneArg,
                 [tasks EXCEPT ![index] = toggled(tasks[index])],
                 fault)

\* toggle_complete called by a caller that noted the manager's tasks and
\* counter before the call and keeps the note over the next toggle of the
\* same task, with what each of the two calls returned
toggle_noted(task_id) ==
    /\ toggle_complete(task_id, "none")
    /\ held' = IF get_task_by_id(tasks, task_id) = 0 THEN Nothing
               ELSE IF held.kind = "noted" /\ held.id = task_id /\ Len(held.rets) = 1
               THEN [held EXCEPT !.rets = Append(@, last'.ret)]
               ELSE [kind |-> "noted", id |-> task_id, rets |-> <<last'.ret>>,
                     tasks |-> tasks, next_id |-> next_id]

\* an element of a list the caller holds: the Task object the manager holds
\* under this id, or a Task object the manager does not hold
Shared(id) == [shared |-> TRUE, id |-> id]
Own(task) == [shared |-> FALSE, task |-> task]

\* self.tasks.copy(): a new list of the same Task objects
get_all_tasks(ts) == [i \in 1..Len(ts) |-> Shared(ts[i].id)]

call_get_all_tasks ==
    /\ held' = [kind |-> "list", items |-> get_all_tasks(tasks)]
    /\ last' = Call("list", 0, NoneArg, NoneArg, "list", "none")
    /\ UNCHANGED <<tasks, next_id, file, backup, adds, issued, fails>>

\* delete_task takes the task's object out of self.tasks: a list the caller
\* holds keeps the object
released(h, task_id) ==
    IF h.kind # "list" \/ get_task_by_id(tasks, task_id) = 0 THEN h
    ELSE [h EXCEPT !.items =
             [i \in 1..Len(@) |->
                 IF @[i].shared /\ @[i].id = task_id
                 THEN Own(tasks[get_task_by_id(tasks, task_id)])
                 ELSE @[i]]]

caller_step ==
    /\ held.kind = "list"
    /\ last' = Call("caller", 0, NoneArg, NoneArg, "none", "none")
    /\ UNCHANGED <<next_id, file, backup, adds, issued, fails>>

\* the caller removes the first element of the list it holds
caller_remove ==
    /\ caller_step
    /\ held.items # <<>>
    /\ held' = [held EXCEPT !.items = Tail(@)]
    /\ UNCHANGED tasks

\* the caller appends a Task object of its own to the list it holds
caller_append ==
    /\ caller_step
    /\ Len(held.items) < MaxAddsEnv
    /\ held' = [held EXCEPT !.items =
                   Append(@, Own(Task(0, Str(0, 1, 0), EmptyStr, FALSE, 0)))]
    /\ UNCHANGED tasks

\* the caller reverses the list it holds
caller_reverse ==
    /\ caller_step
    /\ Len(held.items) >= 2
    /\ held' = [held EXCEPT !.items =
                   [i \in 1..Len(@) |-> @[Len(@) + 1 - i]]]
    /\ UNCHANGED tasks

\* the caller assigns to the completed field of the k-th element of the list
\* it holds: the object is the manager's when the manager still holds it
caller_assign(k) ==
    /\ caller_step
    /\ k \in 1..Len(held.items)
    /\ IF held.items[k].shared
       THEN \E index \in {get_task_by_id(tasks, held.items[k].id)} :
                /\ tasks' = [tasks EXCEPT ![index] = toggled(tasks[index])]
                /\ UNCHANGED held
       ELSE /\ held' = [held EXCEPT !.items[k].task = toggled(@)]
            /\ UNCHANGED tasks

\* faulty variant of get_stats: pending is counted over the tasks left after
\* the first
get_stats_tail(ts) ==
    LET total == Len(ts)
        completed == Cardinality({i \in 1..Len(ts) : ts[i].completed})
        pending == Cardinality({i \in 2..Len(ts) : ~ts[i].completed})
    IN  [total |-> total, completed |-> completed, pending |-> pending]

get_stats(ts) ==
    LET total == Len(ts)
        completed == Cardinality({i \in 1..Len(ts) : ts[i].completed})
    IN  [total |-> total, completed |-> completed, pending |-> total - completed]

\* a caller asks for the counts and keeps the result
call_get_stats ==
    /\ last' = [Call("stats", 0, NoneArg, NoneArg, "stats", "none")
                  EXCEPT !.value = get_stats(tasks)]
    /\ UNCHANGED <<tasks, next_id, file, backup, adds, issued, fails>>

\* a new TodoManager on the same path: __init__ and _load_from_storage
construct ==
    /\ tasks' = load(file).tasks
    /\ next_id' = load(file).next_id
    /\ last' = Call("init", 0, NoneArg, NoneArg, "none", "none")
    /\ UNCHANGED <<file, backup, adds, issued, fails>>

(* ------------------------------ inputs ---------------------------------- *)

TitleA == Str(0, 1, 0)
TitleB == Str(0, TitleMax, 0)

\* <<title, description>> given to add_task: the shortest and the longest
\* valid pair, then an empty title, a whitespace-only title, a title one
\* character too long and a description one character too long
AddInputs ==
    { <<TitleA, EmptyStr>>,
      <<TitleB, Str(0, DescMax, 0)>>,
      <<EmptyStr, EmptyStr>>,
      <<Str(2, 0, 0), EmptyStr>>,
      <<Str(0, TitleMax + 1, 0), EmptyStr>>,
      <<TitleA, Str(0, DescMax + 1, 0)>> }

\* what is typed at the command line's prompts, whitespace included
RawInputs ==
    { <<Str(1, TitleMax, 1), Str(0, DescMax, 1)>>,
      <<Str(1, 0, 0), EmptyStr>>,
      <<Str(0, TitleMax + 1, 0), EmptyStr>>,
      <<Str(1, 1, 0), Str(0, DescMax + 1, 0)>> }

\* arguments of update_task
UpdTitles == {NoneArg, TitleB}
UpdDescs == {NoneArg}

\* <<title, description>> given to update_task by a caller of the manager:
\* an empty title, a whitespace-only title with a description, and an empty
\* description
UpdArgs ==
    { <<EmptyStr, NoneArg>>,
      <<Str(2, 0, 0), Str(0, 1, 0)>>,
      <<NoneArg, EmptyStr>> }

\* <<choice, title, description>> typed at the command line's update prompts:
\* a blank title, a title one character too long with a description, and a
\* blank description
UpdRawInputs ==
    { <<"t", Str(1, 0, 1), EmptyStr>>,
      <<"b", Str(1, TitleMax + 1, 0), Str(0, 1, 1)>>,
      <<"d", EmptyStr, Str(1, 0, 0)>> }

Ids == 1..MaxAdds
EnvIds == 1..MaxAddsEnv

\* a session of one manager on a fresh path, every save succeeding
Next ==
    \/ /\ adds < MaxAdds
       /\ \E in \in AddInputs : add_task(in[1], in[2], "none")
       /\ UNCHANGED held
    \/ /\ adds < MaxAdds
       /\ \E in \in RawInputs : handle_add_task(in[1], in[2], "none")
       /\ UNCHANGED held
    \/ /\ \E id \in Ids, t \in UpdTitles, d \in UpdDescs : update_task(id, t, d, "none")
       /\ UNCHANGED held
    \/ /\ \E id \in Ids : delete_task(id, "none")
       /\ UNCHANGED held
    \/ /\ \E id \in Ids : toggle_complete(id, "none")
       /\ UNCHANGED held
    \/ /\ \E id \in Ids : call_get_task_by_id(id)
       /\ UNCHANGED held
    \/ /\ call_get_stats
       /\ UNCHANGED held

Spec == Init /\ [][Next]_vars

\* a session in which update is given every kind of argument, by a caller of
\* the manager and through the command line
NextUpdate ==
    \/ /\ adds < MaxAddsEnv
       /\ add_task(TitleA, EmptyStr, "none")
       /\ UNCHANGED held
    \/ /\ \E id \in EnvIds, in \in UpdArgs : update_task(id, in[1], in[2], "none")
       /\ UNCHANGED held
    \/ /\ \E id \in EnvIds, in \in UpdRawInputs :
             handle_update_task(id, in[1], in[2], in[3], "none")
       /\ UNCHANGED held
    \/ /\ \E id \in EnvIds : delete_task(id, "none")
       /\ UNCHANGED held
    \/ /\ \E id \in EnvIds : toggle_complete(id, "none")
       /\ UNCHANGED held

SpecUpdate == Init /\ [][NextUpdate]_vars

\* a session in which the caller compares the state around two toggles of
\* one task
NextToggle ==
    \/ /\ adds < MaxAddsEnv
       /\ add_task(TitleA, EmptyStr, "none")
       /\ held' = Nothing
    \/ /\ \E id \in EnvIds : update_task(id, TitleB, NoneArg, "none")
       /\ held' = Nothing
    \/ /\ \E id \in EnvIds : delete_task(id, "none")
       /\ held' = Nothing
    \/ \E id \in EnvIds : toggle_noted(id)

SpecToggle == Init /\ [][NextToggle]_vars

\* a session in which the caller asks for the list of tasks and then changes
\* the list it got and the tasks in it
NextList ==
    \/ /\ adds < MaxAddsEnv
       /\ add_task(TitleA, EmptyStr, "none")
       /\ UNCHANGED held
    \/ \E id \in EnvIds :
          /\ delete_task(id, "none")
          /\ held' = released(held, id)
    \/ /\ \E id \in EnvIds : toggle_complete(id, "none")
       /\ UNCHANGED held
    \/ call_get_all_tasks
    \/ caller_remove
    \/ caller_append
    \/ caller_reverse
    \/ \E k \in 1..MaxAddsEnv : caller_assign(k)

SpecList == Init /\ [][NextList]_vars

\* a session in which a save may fail at any of its steps
NextFaults ==
    \/ /\ adds < MaxAddsEnv
       /\ \E fault \in PossibleFaults(file) : add_task(TitleA, EmptyStr, fault)
       /\ UNCHANGED held
    \/ /\ \E id \in EnvIds, fault \in PossibleFaults(file) :
             update_task(id, TitleB, NoneArg, fault)
       /\ UNCHANGED held
    \/ /\ \E id \in EnvIds, fault \in PossibleFaults(file) : delete_task(id, fault)
       /\ UNCHANGED held
    \/ /\ \E id \in EnvIds, fault \in PossibleFaults(file) : toggle_complete(id, fault)
       /\ UNCHANGED held

SpecFaults == Init /\ [][NextFaults]_vars

\* sessions with failing saves, each ended by the start of a new manager
NextRestart ==
    \/ NextFaults
    \/ /\ construct
       /\ UNCHANGED held

SpecRestart == Init /\ [][NextRestart]_vars

(* -------------------- a manager started on a given file ----------------- *)

Rec1 == to_dict(Task(1, TitleA, EmptyStr, FALSE, 1))
Rec2 == to_dict(Task(2, TitleB, EmptyStr, TRUE, 2))

\* files found at the path when the manager starts: no file, a cut-off
\* document, a document without next_id, one without tasks, a full one, one
\* whose record lacks the keys with a default, one whose record lacks a title
StartFiles ==
    { NoFile,
      Truncated,
      JsonFile([tasks |-> <<Rec1>>]),
      JsonFile([next_id |-> 2]),
      JsonFile([tasks |-> <<Rec1, Rec2>>, next_id |-> 3]),
      JsonFile([tasks |-> <<[id |-> 1, title |-> TitleA,
                             created_at |-> isoformat(1)]>>, next_id |-> 2]),
      JsonFile([tasks |-> <<[id |-> 1, created_at |-> isoformat(1)]>>,
                next_id |-> 2]) }

InitLoad ==
    /\ file \in StartFiles
    /\ backup = NoFile
    /\ tasks = load(file).tasks
    /\ next_id = load(file).next_id
    /\ last = Call("init", 0, NoneArg, NoneArg, "none", "none")
    /\ adds = 0
    /\ issued = {}
    /\ fails = 0
    /\ held = Nothing

NextLoad ==
    \/ /\ adds < MaxAddsEnv
       /\ add_task(TitleA, EmptyStr, "none")
       /\ UNCHANGED held
    \/ /\ \E id \in EnvIds : update_task(id, TitleB, NoneArg, "none")
       /\ UNCHANGED held
    \/ /\ \E id \in EnvIds : delete_task(id, "none")
       /\ UNCHANGED held
    \/ /\ \E id \in EnvIds : toggle_complete(id, "none")
       /\ UNCHANGED held

SpecLoad == InitLoad /\ [][NextLoad]_vars

(* ------------------------------- claims --------------------------------- *)

AddOps == {"add", "handle_add"}
Mutators == {"add", "handle_add", "update", "delete", "toggle"}

HasId(ts, id) == \E i \in 1..Len(ts) : ts[i].id = id

\* the file holds the in-memory state: its records, read back, are the tasks
\* in the same order, and its counter is next_id
FileIsSnapshot ==
    /\ file.kind = "json"
    /\ DOMAIN file.data = {"tasks", "next_id"}
    /\ Len(file.data.tasks) = Len(tasks)
    /\ \A i \in 1..Len(tasks) : from_dict(file.data.tasks[i]) = tasks[i]
    /\ file.data.next_id = next_id

\* C1: from an empty store, after N add calls that returned a task (with any
\* deletes, updates and toggles between them) the counter is N + 1, and the
\* N-th such add returned the task with id N.
C1_CounterIsAddsPlusOne ==
    /\ next_id = adds + 1
    /\ (last.op \in AddOps /\ last.ret = "task") => last.id = adds

\* add, add, delete(1), add: the third add returned id 3, ids 2 and 3 remain
C1_Witness ==
    /\ adds = 3
    /\ last.op = "add" /\ last.ret = "task" /\ last.id = 3
    /\ Len(tasks) = 2
    /\ ~HasId(tasks, 1)

\* C2: over any sequence of calls, failing saves and restarts of the manager
\* on the persisted file included, add never gives an id that an earlier add
\* gave (and the counter never decreases).  Stated here is the part about the
\* ids, which the claim as a whole implies.
C2_IdsNeverReused ==
    [][adds' = adds + 1 => last'.id \notin issued]_vars

\* C3: a manager started on a file that load accepts and whose records have
\* distinct ids never holds two tasks with the same id.
C3_OneTaskPerId ==
    \A i, j \in 1..Len(tasks) : i # j => tasks[i].id # tasks[j].id

\* C4 as claimed: every mutating call that found its task returns with the
\* file holding the in-memory state.
C4_FileAlwaysSnapshot ==
    (last.op \in Mutators /\ last.ret \in {"task", "true"}) => FileIsSnapshot

\* C4 as amended: every mutating call whose save succeeded returns with the
\* file holding the in-memory state (its records equal the tasks, in order,
\* and its counter equals next_id).
C4_FileSnapshotWhenSaved ==
    (last.op \in Mutators /\ last.save = "ok") => FileIsSnapshot

\* a save that succeeded after an earlier one had failed
C4_Witness ==
    /\ last.op = "toggle" /\ last.save = "ok"
    /\ fails > 0
    /\ Len(tasks) >= 1

\* C5: whatever its outcome, save leaves the file as it was or holding the
\* complete document of the tasks and counter it was given.
C5_PriorOrFullyUpdated ==
    [][\/ file' = file
       \/ file' = JsonFile(save_data(tasks', next_id'))]_vars

C7_FailedSaveKeepsMutation ==
    [][last'.save = "fail" =>
          LET id == last'.id
              i == get_task_by_id(tasks, id)
          IN  /\ last'.op \in Mutators
              /\ last'.op = "add" =>
                    /\ last'.ret = "task"
                    /\ tasks' = Append(tasks, tasks'[Len(tasks')])
                    /\ tasks'[Len(tasks')].id = id
                    /\ next_id' = next_id + 1
              /\ last'.op = "update" =>
                    /\ last'.ret = "true"
                    /\ tasks'[i].title = last'.title
                    /\ next_id' = next_id
              /\ last'.op = "delete" =>
                    /\ last'.ret = "true"
                    /\ Len(tasks') = Len(tasks) - 1
                    /\ ~HasId(tasks', id)
                    /\ next_id' = next_id
              /\ last'.op = "toggle" =>
                    /\ last'.ret = "true"
                    /\ tasks'[i].completed = ~tasks[i].completed
                    /\ next_id' = next_id]_vars

\* an add whose save failed returned its task, which is in memory, not on file
C7_Witness ==
    /\ last.op = "add" /\ last.save = "fail" /\ last.ret = "task"
    /\ HasId(tasks, last.id)
    /\ ~FileIsSnapshot

\* C8: an add with a title or description that violates a constraint fails
\* with the validation error and changes nothing: tasks, counter, file and
\* backup stay as they were, and the next add that succeeds gets the id the
\* failed one would have had.
C8_InvalidAddChangesNothing ==
    [][/\ (last'.op \in AddOps /\ last'.ret \in {"ValueError", "rejected"}) =>
             UNCHANGED <<tasks, next_id, file, backup>>
       /\ (last'.op \in AddOps /\ last'.ret = "task") => last'.id = next_id]_vars

\* a rejected add in a store that has tasks, a file and a backup
C8_Witness ==
    /\ last.op = "add" /\ last.ret = "ValueError"
    /\ Len(tasks) >= 1
    /\ exists(file) /\ exists(backup)

\* C9: add accepts a title and description exactly when the trimmed title has
\* 1 to 200 characters and the description at most 1000; the command line's
\* own checks draw the same line.
C9_ValidationBoundaries ==
    last.op \in AddOps =>
        LET trimmed == strip(last.title).core
            ok == /\ trimmed >= 1
                  /\ trimmed <= 200
                  /\ StrLen(last.description) <= 1000
        IN  /\ ok => last.ret = "task"
            /\ ~ok => last.ret \in {"ValueError", "rejected"}

\* the command line accepted a title of 200 and a description of 1000
\* characters
C9_Witness ==
    /\ last.op = "handle_add" /\ last.ret = "task"
    /\ StrLen(last.title) = 200
    /\ StrLen(last.description) = 1000

\* C10: update, delete, toggle and get on an id no task has return false
\* (None for get) and change nothing: tasks, counter and statistics are the
\* same, no save is made, file and backup are untouched.
C10_AbsentIdChangesNothing ==
    [][(last'.op \in {"update", "delete", "toggle", "get"}
            /\ ~HasId(tasks, last'.id)) =>
          /\ last'.ret = IF last'.op = "get" THEN "none" ELSE "false"
          /\ last'.save = "none"
          /\ UNCHANGED <<tasks, next_id, file, backup>>
          /\ get_stats(tasks') = get_stats(tasks)]_vars

\* delete of a deleted id, in a store that still has tasks and its files
C10_Witness ==
    /\ last.op = "delete" /\ last.ret = "false"
    /\ Len(tasks) >= 1
    /\ last.id < next_id
    /\ exists(file) /\ exists(backup)

\* a file load can read: a document whose task records all have the keys
\* without a default
Readable(f) ==
    /\ f.kind = "json"
    /\ "tasks" \in DOMAIN f.data =>
          \A i \in 1..Len(f.data.tasks) :
              {"id", "title", "created_at"} \subseteq DOMAIN f.data.tasks[i]

\* C11: a manager constructed on a path with no file, or with a file that
\* cannot be parsed or holds a record that cannot be reconstructed, starts with
\* no tasks and counter 1; nothing is raised.
C11_LoadDegradesToEmpty ==
    (last.op = "init" /\ ~Readable(file)) =>
        /\ tasks = <<>>
        /\ next_id = 1
        /\ last.ret = "none"

\* a manager started on a document whose only record has no title
C11_Witness ==
    /\ last.op = "init"
    /\ file.kind = "json"
    /\ "tasks" \in DOMAIN file.data
    /\ Len(file.data.tasks) >= 1
    /\ ~Readable(file)
    /\ tasks = <<>>

\* C20: when every save succeeded, a new manager constructed on the same path
\* holds the same tasks, in the same order and with the same fields, and the
\* same counter as the manager that wrote the file.
C20_RestartEquivalence ==
    [][(last'.op = "init" /\ fails = 0) =>
          (tasks' = tasks /\ next_id' = next_id)]_vars

\* a manager restarted after an add and a delete: the counter is ahead of the
\* number of tasks
C20_Witness ==
    /\ last.op = "init"
    /\ fails = 0
    /\ adds >= 1
    /\ Len(tasks) >= 1
    /\ next_id > Len(tasks) + 1
    /\ FileIsSnapshot

\* C14: an add that succeeds returns a task whose id is the counter at call
\* time and whose completed flag is false, appends it after the existing tasks,
\* which keep their fields and positions, and raises the counter by one; the
\* first add on a fresh store returns id 1.
C14_AddEffect ==
    [][adds' = adds + 1 =>
          /\ last'.ret = "task"
          /\ last'.id = next_id
          /\ next_id' = next_id + 1
          /\ Len(tasks') = Len(tasks) + 1
          /\ SubSeq(tasks', 1, Len(tasks)) = tasks
          /\ tasks'[Len(tasks')].id = next_id
          /\ tasks'[Len(tasks')].completed = FALSE
          /\ tasks'[Len(tasks')].title = last'.title
          /\ tasks'[Len(tasks')].description = last'.description
          /\ adds = 0 => last'.id = 1]_vars

\* an add that succeeded with another task already in the list
C14_Witness ==
    /\ last.op \in AddOps
    /\ last.ret = "task"
    /\ Len(tasks) >= 2
    /\ tasks[Len(tasks)].id = last.id
    /\ next_id = last.id + 1

\* C16: delete of an existing id returns true and removes that task and no
\* other: the id is not found afterwards, the sequence is one shorter, the
\* other tasks keep their fields and their relative order, and the counter
\* does not change.
C16_DeleteEffect ==
    [][(last'.op = "delete" /\ HasId(tasks, last'.id)) =>
          /\ last'.ret = "true"
          /\ ~HasId(tasks', last'.id)
          /\ Len(tasks') = Len(tasks) - 1
          /\ tasks' = SelectSeq(tasks, LAMBDA t : t.id # last'.id)
          /\ next_id' = next_id]_vars

\* a delete that took a task from in front of two others
C16_Witness ==
    /\ last.op = "delete"
    /\ last.ret = "true"
    /\ Len(tasks) >= 2
    /\ \A i \in 1..Len(tasks) : tasks[i].id > last.id

\* C17: toggle of an existing id returns true and flips the completed flag of
\* that task; its other fields, the other tasks, the length, the order and the
\* counter do not change.
C17_ToggleEffect ==
    [][(last'.op = "toggle" /\ HasId(tasks, last'.id)) =>
          /\ last'.ret = "true"
          /\ Len(tasks') = Len(tasks)
          /\ next_id' = next_id
          /\ \A i \in 1..Len(tasks) :
                IF tasks[i].id = last'.id
                THEN tasks'[i] = [tasks[i] EXCEPT !.completed = ~tasks[i].completed]
                ELSE tasks'[i] = tasks[i]]_vars

\* a toggle that took a completed task back to pending, next to another task
C17_Witness ==
    /\ last.op = "toggle"
    /\ last.ret = "true"
    /\ Len(tasks) >= 2
    /\ \E i \in 1..Len(tasks) : tasks[i].id = last.id /\ ~tasks[i].completed
    /\ \E i \in 1..Len(tasks) : tasks[i].id # last.id /\ tasks[i].completed

RECURSIVE CountCompleted(_)
CountCompleted(ts) ==
    IF ts = <<>> THEN 0
    ELSE (IF Head(ts).completed THEN 1 ELSE 0) + CountCompleted(Tail(ts))

\* C18: in every state the counts returned are the number of tasks, the number
\* of completed tasks and their difference, with 0 <= completed <= total, and
\* asking for them changes neither the manager's state nor the files.
C18_StatsPureCount ==
    [][last'.op = "stats" =>
          /\ last'.value.total = Len(tasks)
          /\ last'.value.completed = CountCompleted(tasks)
          /\ last'.value.pending = Len(tasks) - CountCompleted(tasks)
          /\ 0 <= last'.value.completed
          /\ last'.value.completed <= last'.value.total
          /\ UNCHANGED <<tasks, next_id, file, backup>>]_vars

\* counts taken with a completed and a pending task in the list
C18_Witness ==
    /\ last.op = "stats"
    /\ last.value.total >= 2
    /\ last.value.completed >= 1
    /\ last.value.pending >= 1

UpdateOps == {"update", "handle_update"}

C13_ToggleTwiceRestores ==
    (held.kind = "noted" /\ Len(held.rets) = 2) =>
        /\ held.rets = <<"true", "true">>
        /\ tasks = held.tasks
        /\ next_id = held.next_id

\* two toggles in a row of a task that was complete, next to another task
C13_Witness ==
    /\ held.kind = "noted"
    /\ Len(held.rets) = 2
    /\ last.op = "toggle"
    /\ Len(tasks) >= 2
    /\ \E i \in 1..Len(tasks) : tasks[i].id = held.id /\ tasks[i].completed

\* C19: the list returned holds the tasks in insertion order, asking for it
\* changes nothing, and nothing the caller then does to the list it got or to
\* a task in it changes the manager's tasks, its counter or the files.
C19_ListIsDefensiveCopy ==
    [][/\ last'.op = "list" =>
             /\ UNCHANGED <<tasks, next_id, file, backup>>
             /\ Len(held'.items) = Len(tasks)
             /\ \A i \in 1..Len(tasks) :
                   /\ held'.items[i].shared
                   /\ held'.items[i].id = tasks[i].id
       /\ last'.op = "caller" =>
             UNCHANGED <<tasks, next_id, file, backup>>]_vars

\* C21: in a session started on an empty store, whether or not the saves
\* succeed, every task in memory has an id that is at least 1 and less than
\* the counter, and the ids grow strictly from the first task to the last.
C21_IdsBelowCounterAndIncreasing ==
    /\ \A i \in 1..Len(tasks) : tasks[i].id >= 1 /\ tasks[i].id < next_id
    /\ \A i \in 1..Len(tasks), j \in 1..Len(tasks) :
          i < j => tasks[i].id < tasks[j].id

\* a task in memory after an update, delete or toggle whose save failed, with
\* an earlier task deleted, so that the counter is ahead of the length
C21_Witness ==
    /\ fails > 0
    /\ last.op \in {"update", "toggle", "delete"}
    /\ last.save = "fail"
    /\ Len(tasks) >= 1
    /\ next_id > Len(tasks) + 1

====
